---- MODULE Spec2Model ----
(***************************************************************************)
(* Request validation, error taxonomy and response formatting of app.py:   *)
(* the two routes (index, api_predict), the two error handlers and the     *)
(* logging configuration.  A request is served by one worker; a handler is *)
(* translated to the ordered sequence of its effects (read the upload,     *)
(* call the classifier, log, render, return or raise), which the worker    *)
(* then performs one at a time.  A log call walks the logger hierarchy and *)
(* each handler of it appends one formatted record to its sink, one        *)
(* handler at a time (a handler's emit happens under that handler's lock). *)
(* Strings that the code inspects character by character (filenames) are   *)
(* sequences of one-character strings; probabilities are in hundredths.    *)
(* The image name (secure_filename) passed to the template is left out.    *)
(***************************************************************************)
EXTENDS Integers, Sequences, FiniteSets, TLC

VARIABLES pc, req, todo, trace, pend, logFile, logStream, served, logCalls

vars == <<pc, req, todo, trace, pend, logFile, logStream, served, logCalls>>

(* ------------------------------ bounds --------------------------------- *)

\* requests received in one run of the sequential specification
MaxRequests == 1
\* requests received in one run of the concurrent specification
MaxConcRequests == 2

(* ----------------------------- constants ------------------------------- *)

MAX_CONTENT_LENGTH == 16 * 1024 * 1024

ALLOWED_EXTENSIONS == { <<"p","n","g">>, <<"j","p","g">>, <<"j","p","e","g">> }

\* logging levels of the standard library
NOTSET == 0
DEBUG == 10
ERROR == 40

NoFileMsg == "No file uploaded. Please upload an image."
InvalidTypeMsg == "Invalid file type. Please upload a valid image."
AnomalousMsg == "Image is anomalous and cannot be classified."
NotFoundMsg == "Not Found"
UnexpectedMsg == "An unexpected error occurred"
PredictionPrefix == "Prediction error: "

\* an absent (None) string or field
None == "<None>"

(* ------------------------------ strings -------------------------------- *)

\* str.lower() on one character
LowerChar(c) ==
  CASE c = "P" -> "p" [] c = "N" -> "n" [] c = "G" -> "g"
    [] c = "J" -> "j" [] c = "E" -> "e" [] c = "T" -> "t"
    [] c = "X" -> "x" [] c = "I" -> "i" [] c = "F" -> "f"
    [] OTHER -> c

lower(s) == [i \in 1..Len(s) |-> LowerChar(s[i])]

\* '.' in filename
HasDot(s) == \E i \in 1..Len(s) : s[i] = "."

\* position of the last '.'
LastDot(s) == CHOOSE i \in 1..Len(s) : s[i] = "." /\ \A j \in (i+1)..Len(s) : s[j] # "."

\* filename.rsplit('.', 1)[1]
rsplit1(s) == SubSeq(s, LastDot(s) + 1, Len(s))

allowed_file_drops_lower(filename) ==
  HasDot(filename) /\ rsplit1(filename) \in ALLOWED_EXTENSIONS

allowed_file(filename) ==
  HasDot(filename) /\ lower(rsplit1(filename)) \in ALLOWED_EXTENSIONS

(* --------------------------- requests ---------------------------------- *)

NoFile == [present |-> FALSE, filename |-> <<>>, stream |-> <<>>]

Upload(fn, s) == [present |-> TRUE, filename |-> fn, stream |-> s]

\* a presence test that lets every request through
Truthy_always(file) == file.present \/ ~file.present

\* FileStorage.__bool__: an upload without a filename is falsy, like None
Truthy(file) == file.present /\ file.filename # <<>>

Filenames ==
  { <<>>,
    <<"a",".","p","n","g">>,
    <<"a",".","P","N","G">>,
    <<"b",".","J","p","g">>,
    <<"c",".","j","p","e","g">>,
    <<"x",".","t","x","t",".","j","p","g">>,
    <<"a",".","p","n","g",".","t","x","t">>,
    <<"d",".","g","i","f">>,
    <<"p","n","g">>,
    <<"a",".">>,
    <<".","p","n","g">> }

Streams == { <<>>, <<137, 80, 0, 255>> }

ContentLengths == { 10240, MAX_CONTENT_LENGTH, MAX_CONTENT_LENGTH + 1 }

Files == {NoFile} \cup { Upload(fn, s) : fn \in Filenames, s \in Streams }

Requests ==
  [ path : {"/", "/api/predict", "/foo"},
    method : {"GET", "POST"},
    content_length : ContentLengths,
    file : Files ]

NoRequest == [path |-> None, method |-> None, content_length |-> 0, file |-> NoFile]

(* ------------------- environment: upload stream, classifier, template --- *)

\* outcome of a call that may raise: a value (label, prob) or a failure message
Returned(l, p) == [ok |-> TRUE, label |-> l, prob |-> p, msg |-> None]
Raised(m) == [ok |-> FALSE, label |-> None, prob |-> 0, msg |-> m]
Done == Returned(None, 0)

\* file.read()
ReadOutcomes == { Done, Raised("read failed") }

Labels == { "Cat", "Anomalous" }

\* hundredths: 87 is 0.87, 101 is 1.01
Probabilities == { -1, 0, 87, 100, 101 }

\* utils.predict_and_format_result: a (result, probability) pair or an exception
ClassifierOutcomes ==
  { Returned(l, p) : l \in Labels, p \in Probabilities }
    \cup { Raised("model failed"), Raised("cannot identify image file") }

\* flask.render_template: the page, or an exception of the template engine
RenderOutcomes == { Done, Raised("index.html") }

Env == [reads |-> ReadOutcomes, classes |-> ClassifierOutcomes, renders |-> RenderOutcomes]

(* ----------------------------- responses ------------------------------- *)

NoResp ==
  [kind |-> "none", status |-> 0, error |-> None, hasResult |-> FALSE,
   label |-> None, prob |-> 0, details |-> None]

\* the context passed to render_template('index.html', result=..., error=...)
Context(hasResult, label, prob, error) ==
  [kind |-> "page", status |-> 200, error |-> error, hasResult |-> hasResult,
   label |-> label, prob |-> prob, details |-> None]

\* jsonify({'error': message}), status
JsonError(message, status) ==
  [kind |-> "json", status |-> status, error |-> message, hasResult |-> FALSE,
   label |-> None, prob |-> 0, details |-> None]

\* jsonify({'class': result, 'probability': probability})
JsonResult(result, probability) ==
  [kind |-> "json", status |-> 200, error |-> None, hasResult |-> TRUE,
   label |-> result, prob |-> probability, details |-> None]

\* jsonify({'error': message, 'details': details}), 500
JsonUnexpected(message, details) ==
  [kind |-> "json", status |-> 500, error |-> message, hasResult |-> FALSE,
   label |-> None, prob |-> 0, details |-> details]

(* ----------------------------- exceptions ------------------------------ *)

NoExc == [kind |-> "none", code |-> 0, name |-> None, description |-> None, msg |-> None]

HTTPException(code, name, description) ==
  [kind |-> "http", code |-> code, name |-> name, description |-> description, msg |-> None]

Exception(m) == [kind |-> "other", code |-> 0, name |-> None, description |-> None, msg |-> m]

NotFound ==
  HTTPException(404, "Not Found", "The requested URL was not found on the server.")

MethodNotAllowed ==
  HTTPException(405, "Method Not Allowed", "The method is not allowed for the requested URL.")

RequestEntityTooLarge ==
  HTTPException(413, "Request Entity Too Large",
                "The data value transmitted exceeds the capacity limit.")

\* str(e)
Str(e) ==
  IF e.kind = "http"
  THEN ToString(e.code) \o " " \o e.name \o ": " \o e.description
  ELSE e.msg

(* ------------------------------- effects ------------------------------- *)

Effect(op, func, line, msg, data, out, resp, exc) ==
  [op |-> op, func |-> func, line |-> line, msg |-> msg, data |-> data,
   out |-> out, resp |-> resp, exc |-> exc]

\* app.logger.error(msg)
Log(msg, func, line) == Effect("log", func, line, msg, <<>>, Done, NoResp, NoExc)

\* file.read()
Read(file, out, func, line) ==
  Effect("read", func, line, None, IF out.ok THEN file.stream ELSE <<>>, out, NoResp, NoExc)

\* predict_and_format_result(BytesIO(data))
Predict(data, out, func, line) == Effect("predict", func, line, None, data, out, NoResp, NoExc)

Render(ctx, out, func, line) == Effect("render", func, line, None, <<>>, out, ctx, NoExc)

Return(resp, func, line) == Effect("return", func, line, None, <<>>, Done, resp, NoExc)

Raise(exc, func, line) == Effect("raise", func, line, None, <<>>, Done, NoResp, exc)

\* return render_template(...): the rendered page, or the template's exception
render_template(ctx, out, func, line) ==
  IF out.ok
  THEN << Render(ctx, out, func, line), Return(ctx, func, line) >>
  ELSE << Render(ctx, out, func, line), Raise(Exception(out.msg), func, line) >>

(* ------------------------------ handlers ------------------------------- *)

\* a read that loses the last byte of the upload
file_read_drops_last_byte(file) ==
  IF file.stream = <<>> THEN <<>> ELSE SubSeq(file.stream, 1, Len(file.stream) - 1)

\* the bytes file.read() returns, wrapped unchanged by BytesIO
file_read(file) == file.stream

\* request.files.get('image'): parsing the form raises 413 when the declared
\* length exceeds app.config['MAX_CONTENT_LENGTH']
TooLarge(r) == r.content_length > MAX_CONTENT_LENGTH

\* an except branch that shows the raw exception text
index_except_raw(m, rn2) ==
  << Log("Error during prediction: " \o m, "index", 87) >>
    \o render_template(Context(FALSE, None, 0, m), rn2, "index", 89)

\* the except branch of index
index_except(m, rn2) ==
  << Log("Error during prediction: " \o m, "index", 87) >>
    \o render_template(Context(FALSE, None, 0, PredictionPrefix \o m), rn2, "index", 89)

\* the try block of index
index_try(file, rd, cls, rn1, rn2) ==
  IF ~rd.ok
  THEN << Read(file, rd, "index", 82) >> \o index_except(rd.msg, rn2)
  ELSE IF ~cls.ok
  THEN << Read(file, rd, "index", 82), Predict(file_read(file), cls, "index", 83) >>
         \o index_except(cls.msg, rn2)
  ELSE IF ~rn1.ok
  THEN << Read(file, rd, "index", 82), Predict(file_read(file), cls, "index", 83),
          Render(Context(TRUE, cls.label, cls.prob, None), rn1, "index", 85) >>
         \o index_except(rn1.msg, rn2)
  ELSE << Read(file, rd, "index", 82), Predict(file_read(file), cls, "index", 83) >>
         \o render_template(Context(TRUE, cls.label, cls.prob, None), rn1, "index", 85)

\* index(): the effects of the page route for request r, given what the
\* upload stream (rd), the classifier (cls) and the template (rn1, rn2) do
index(r, rd, cls, rn1, rn2) ==
  IF r.method = "POST"
  THEN IF TooLarge(r)
       THEN << Raise(RequestEntityTooLarge, "index", 73) >>
       ELSE IF ~Truthy(r.file)
       THEN << Log(NoFileMsg, "index", 76) >>
              \o render_template(Context(FALSE, None, 0, NoFileMsg), rn1, "index", 77)
       ELSE IF allowed_file(r.file.filename)
       THEN index_try(r.file, rd, cls, rn1, rn2)
       ELSE << Log(InvalidTypeMsg, "index", 92) >>
              \o render_template(Context(FALSE, None, 0, InvalidTypeMsg), rn1, "index", 93)
  ELSE render_template(Context(FALSE, None, 0, None), rn1, "index", 95)

\* an except branch that logs and lets the exception go on
api_predict_except_reraises(m) ==
  << Log("API Prediction error: " \o m, "api_predict", 114),
     Raise(Exception(m), "api_predict", 115) >>

\* the except branch of api_predict
api_predict_except(m) ==
  << Log("API Prediction error: " \o m, "api_predict", 114),
     Return(JsonError(PredictionPrefix \o m, 500), "api_predict", 115) >>

\* a try block without the test for the anomalous result
api_predict_try_no_sentinel(file, rd, cls) ==
  IF ~rd.ok
  THEN << Read(file, rd, "api_predict", 107),
          Log("API Prediction error: " \o rd.msg, "api_predict", 114),
          Return(JsonError(PredictionPrefix \o rd.msg, 500), "api_predict", 115) >>
  ELSE IF ~cls.ok
  THEN << Read(file, rd, "api_predict", 107),
          Predict(file.stream, cls, "api_predict", 108),
          Log("API Prediction error: " \o cls.msg, "api_predict", 114),
          Return(JsonError(PredictionPrefix \o cls.msg, 500), "api_predict", 115) >>
  ELSE << Read(file, rd, "api_predict", 107),
          Predict(file.stream, cls, "api_predict", 108),
          Return(JsonResult(cls.label, cls.prob), "api_predict", 112) >>

\* the try block of api_predict
api_predict_try(file, rd, cls) ==
  IF ~rd.ok
  THEN << Read(file, rd, "api_predict", 107) >> \o api_predict_except(rd.msg)
  ELSE IF ~cls.ok
  THEN << Read(file, rd, "api_predict", 107),
          Predict(file_read(file), cls, "api_predict", 108) >>
         \o api_predict_except(cls.msg)
  ELSE IF cls.label = "Anomalous"
  THEN << Read(file, rd, "api_predict", 107),
          Predict(file_read(file), cls, "api_predict", 108),
          Log(AnomalousMsg, "api_predict", 110),
          Return(JsonError(AnomalousMsg, 400), "api_predict", 111) >>
  ELSE << Read(file, rd, "api_predict", 107),
          Predict(file_read(file), cls, "api_predict", 108),
          Return(JsonResult(cls.label, cls.prob), "api_predict", 112) >>

\* api_predict(): the effects of the API route
api_predict(r, rd, cls) ==
  IF TooLarge(r)
  THEN << Raise(RequestEntityTooLarge, "api_predict", 100) >>
  ELSE IF ~Truthy(r.file)
  THEN << Log("No file uploaded.", "api_predict", 102),
          Return(JsonError(NoFileMsg, 400), "api_predict", 103) >>
  ELSE IF allowed_file(r.file.filename)
  THEN api_predict_try(r.file, rd, cls)
  ELSE << Log("Invalid file type.", "api_predict", 117),
          Return(JsonError(InvalidTypeMsg, 400), "api_predict", 118) >>

\* an HTTP handler without the special case for 404
handle_http_exception_no_404_case(e) ==
  << Log("HTTP Exception: " \o Str(e), "handle_http_exception", 54),
     Return(JsonError(e.description, e.code), "handle_http_exception", 57) >>

\* handle_http_exception(e)
handle_http_exception(e) ==
  << Log("HTTP Exception: " \o Str(e), "handle_http_exception", 54),
     IF e.code = 404
     THEN Return(JsonError(NotFoundMsg, 404), "handle_http_exception", 56)
     ELSE Return(JsonError(e.description, e.code), "handle_http_exception", 57) >>

\* handle_generic_exception(e)
handle_generic_exception(e) ==
  << Log("Unhandled Exception: " \o Str(e), "handle_generic_exception", 62),
     Return(JsonUnexpected(UnexpectedMsg, Str(e)), "handle_generic_exception", 63) >>

\* the URL map built by the two @app.route decorators
Methods(path) ==
  CASE path = "/" -> {"GET", "POST"}
    [] path = "/api/predict" -> {"POST"}
    [] OTHER -> {}

(* ------------------------------- logging ------------------------------- *)

\* the handlers attached to each logger: logging.basicConfig(handlers=...) on
\* the root logger, app.logger.addHandler(...) twice on the application's
LoggerHandlers(logger) ==
  CASE logger = "root" -> << "file", "stream" >>
    [] logger = "app" -> << "file", "stream" >>

\* the application's logger is a child of the root logger and propagates
LoggerParent(logger) == IF logger = "app" THEN "root" ELSE None

\* file_handler.setLevel(logging.DEBUG); the stream handler keeps NOTSET
HandlerLevel(h) == IF h = "file" THEN DEBUG ELSE NOTSET

getLevelName(levelno) ==
  CASE levelno = ERROR -> "ERROR" [] levelno = DEBUG -> "DEBUG" [] OTHER -> "NOTSET"

\* a log call made at DEBUG severity
LogRecord_debug(e) ==
  [levelno |-> DEBUG, msg |-> e.msg, module |-> "app", funcName |-> e.func, lineno |-> e.line]

\* the LogRecord of app.logger.error(msg) made at func:line
LogRecord(e) ==
  [levelno |-> ERROR, msg |-> e.msg, module |-> "app", funcName |-> e.func, lineno |-> e.line]

\* JsonFormatter.format(record): the fields of the JSON object (no clock is
\* modelled, so the timestamp is left out)
format(record) ==
  [level |-> getLevelName(record.levelno), message |-> record.msg,
   module |-> record.module, funcName |-> record.funcName, lineNo |-> record.lineno]

\* Logger.callHandlers: the handlers of the logger and of its ancestors that
\* accept the record's level, in the order they are called
RECURSIVE callHandlers(_, _)
callHandlers(logger, record) ==
  LET own == SelectSeq(LoggerHandlers(logger), LAMBDA h : record.levelno >= HandlerLevel(h))
  IN IF LoggerParent(logger) = None
     THEN own
     ELSE own \o callHandlers(LoggerParent(logger), record)

(* ---------------------------- the workers ------------------------------ *)

Workers == {1, 2}

\* the sequential specification serves its requests on one worker
SeqWorkers == {1}

\* the requests and the environment of the concurrent specification
ConcRequests ==
  { [path |-> "/api/predict", method |-> "POST", content_length |-> 10240, file |-> NoFile],
    [path |-> "/api/predict", method |-> "POST", content_length |-> 10240,
     file |-> Upload(<<"a",".","p","n","g">>, <<137, 80, 0, 255>>)],
    [path |-> "/", method |-> "POST", content_length |-> 10240,
     file |-> Upload(<<"d",".","g","i","f">>, <<>>)],
    [path |-> "/foo", method |-> "GET", content_length |-> 10240, file |-> NoFile] }

ConcEnv ==
  [reads |-> { Done },
   classes |-> { Returned("Cat", 87), Raised("model failed") },
   renders |-> RenderOutcomes]

Init ==
  /\ pc = [p \in Workers |-> "idle"]
  /\ req = [p \in Workers |-> NoRequest]
  /\ todo = [p \in Workers |-> <<>>]
  /\ trace = [p \in Workers |-> <<>>]
  /\ pend = [p \in Workers |-> <<>>]
  /\ logFile = <<>>
  /\ logStream = <<>>
  /\ served = 0
  /\ logCalls = 0

\* a worker takes the next request (one of R, at most max in a run)
Receive(p, R, max) ==
  /\ pc[p] \in {"idle", "done"}
  /\ served < max
  /\ \E r \in R : req' = [req EXCEPT ![p] = r]
  /\ pc' = [pc EXCEPT ![p] = "dispatch"]
  /\ todo' = [todo EXCEPT ![p] = <<>>]
  /\ trace' = [trace EXCEPT ![p] = <<>>]
  /\ served' = served + 1
  /\ UNCHANGED <<pend, logFile, logStream, logCalls>>

\* Flask matches the URL and the method, and raises 404 or 405 otherwise
dispatch_request(p) ==
  /\ pc[p] = "dispatch"
  /\ IF Methods(req[p].path) = {}
     THEN /\ todo' = [todo EXCEPT ![p] = << Raise(NotFound, "dispatch_request", 65) >>]
          /\ pc' = [pc EXCEPT ![p] = "run"]
     ELSE IF req[p].method \notin Methods(req[p].path)
     THEN /\ todo' = [todo EXCEPT ![p] = << Raise(MethodNotAllowed, "dispatch_request", 97) >>]
          /\ pc' = [pc EXCEPT ![p] = "run"]
     ELSE /\ pc' = [pc EXCEPT ![p] = IF req[p].path = "/" THEN "index" ELSE "api_predict"]
          /\ todo' = todo
  /\ UNCHANGED <<req, trace, pend, logFile, logStream, served, logCalls>>

\* the page route runs
CallIndex(p, E) ==
  /\ pc[p] = "index"
  /\ \E rd \in E.reads, cls \in E.classes, rn1 \in E.renders, rn2 \in E.renders :
       todo' = [todo EXCEPT ![p] = index(req[p], rd, cls, rn1, rn2)]
  /\ pc' = [pc EXCEPT ![p] = "run"]
  /\ UNCHANGED <<req, trace, pend, logFile, logStream, served, logCalls>>

\* the API route runs
CallApiPredict(p, E) ==
  /\ pc[p] = "api_predict"
  /\ \E rd \in E.reads, cls \in E.classes :
       todo' = [todo EXCEPT ![p] = api_predict(req[p], rd, cls)]
  /\ pc' = [pc EXCEPT ![p] = "run"]
  /\ UNCHANGED <<req, trace, pend, logFile, logStream, served, logCalls>>

Running(p) == pc[p] = "run" /\ pend[p] = <<>> /\ todo[p] # <<>>

\* the next effect is a read, a classifier call or a template rendering
Perform(p) ==
  /\ Running(p)
  /\ Head(todo[p]).op \in {"read", "predict", "render"}
  /\ trace' = [trace EXCEPT ![p] = Append(@, Head(todo[p]))]
  /\ todo' = [todo EXCEPT ![p] = Tail(@)]
  /\ UNCHANGED <<pc, req, pend, logFile, logStream, served, logCalls>>

\* app.logger.error(msg): the record is handed to every handler callHandlers finds
logger_error(p) ==
  /\ Running(p)
  /\ Head(todo[p]).op = "log"
  /\ LET record == LogRecord(Head(todo[p]))
         hs == callHandlers("app", record)
     IN pend' = [pend EXCEPT ![p] =
                   [i \in 1..Len(hs) |-> [handler |-> hs[i], record |-> record]]]
  /\ trace' = [trace EXCEPT ![p] = Append(@, Head(todo[p]))]
  /\ todo' = [todo EXCEPT ![p] = Tail(@)]
  /\ logCalls' = logCalls + 1
  /\ UNCHANGED <<pc, req, logFile, logStream, served>>

\* Handler.handle: under the handler's lock, format the record and append it
emit(p) ==
  /\ pc[p] = "run"
  /\ pend[p] # <<>>
  /\ LET h == Head(pend[p])
     IN /\ IF h.handler = "file"
           THEN logFile' = Append(logFile, format(h.record)) /\ logStream' = logStream
           ELSE logStream' = Append(logStream, format(h.record)) /\ logFile' = logFile
        /\ trace' = [trace EXCEPT ![p] =
                       Append(@, Effect("emit", h.handler, h.record.lineno, h.record.msg,
                                        <<>>, Done, NoResp, NoExc))]
  /\ pend' = [pend EXCEPT ![p] = Tail(@)]
  /\ UNCHANGED <<pc, req, todo, served, logCalls>>

\* the view or the error handler returns its response
respond(p) ==
  /\ Running(p)
  /\ Head(todo[p]).op = "return"
  /\ trace' = [trace EXCEPT ![p] = Append(@, Head(todo[p]))]
  /\ todo' = [todo EXCEPT ![p] = <<>>]
  /\ pc' = [pc EXCEPT ![p] = "done"]
  /\ UNCHANGED <<req, pend, logFile, logStream, served, logCalls>>

\* @app.errorhandler(HTTPException)
CallHandleHttpException(p) ==
  /\ Running(p)
  /\ Head(todo[p]).op = "raise"
  /\ Head(todo[p]).exc.kind = "http"
  /\ trace' = [trace EXCEPT ![p] = Append(@, Head(todo[p]))]
  /\ todo' = [todo EXCEPT ![p] = handle_http_exception(Head(todo[p]).exc)]
  /\ UNCHANGED <<pc, req, pend, logFile, logStream, served, logCalls>>

\* @app.errorhandler(Exception)
CallHandleGenericException(p) ==
  /\ Running(p)
  /\ Head(todo[p]).op = "raise"
  /\ Head(todo[p]).exc.kind = "other"
  /\ trace' = [trace EXCEPT ![p] = Append(@, Head(todo[p]))]
  /\ todo' = [todo EXCEPT ![p] = handle_generic_exception(Head(todo[p]).exc)]
  /\ UNCHANGED <<pc, req, pend, logFile, logStream, served, logCalls>>

Next ==
  \E p \in SeqWorkers :
    \/ Receive(p, Requests, MaxRequests)
    \/ dispatch_request(p)
    \/ CallIndex(p, Env)
    \/ CallApiPredict(p, Env)
    \/ Perform(p)
    \/ logger_error(p)
    \/ emit(p)
    \/ respond(p)
    \/ CallHandleHttpException(p)
    \/ CallHandleGenericException(p)

Spec == Init /\ [][Next]_vars

NextConc ==
  \E p \in Workers :
    \/ Receive(p, ConcRequests, MaxConcRequests)
    \/ dispatch_request(p)
    \/ CallIndex(p, ConcEnv)
    \/ CallApiPredict(p, ConcEnv)
    \/ Perform(p)
    \/ logger_error(p)
    \/ emit(p)
    \/ respond(p)
    \/ CallHandleHttpException(p)
    \/ CallHandleGenericException(p)

SpecConc == Init /\ [][NextConc]_vars

(* ------------------------ reading a finished request ------------------- *)

Finished(p) == pc[p] = "done"

\* the response the client received
Resp(p) == trace[p][Len(trace[p])].resp

\* the positions of the events of one kind in the request's trace
At(p, op) == { i \in 1..Len(trace[p]) : trace[p][i].op = op }

\* the classifier invocations of the request, in order
PredictCalls(p) == SelectSeq(trace[p], LAMBDA e : e.op = "predict")

\* the request was answered with message m: as the error of the context handed
\* to the template, or as the error of the JSON body
Says(p, m) == \E i \in At(p, "render") \cup At(p, "return") : trace[p][i].resp.error = m

\* the upload was read to its end
ReadOk(p) == \E i \in At(p, "read") : trace[p][i].out.ok

\* the messages of the failures raised by the read, the classifier or the template
FailureMsgs(p) ==
  { trace[p][i].out.msg :
      i \in { j \in At(p, "read") \cup At(p, "predict") \cup At(p, "render") :
                ~trace[p][j].out.ok } }

\* the filename has a '.', and the lowercased text after its last '.' is one of
\* png, jpg, jpeg
ExtensionAllowed(fn) ==
  \E k \in 1..Len(fn) :
    /\ fn[k] = "."
    /\ \A j \in (k+1)..Len(fn) : fn[j] # "."
    /\ lower(SubSeq(fn, k + 1, Len(fn)))
         \in { <<"p","n","g">>, <<"j","p","g">>, <<"j","p","e","g">> }

OnRoute(p) == req[p].path \in {"/", "/api/predict"}

\* a POST to one of the two routes whose declared length is within the limit
Upload_request(p) ==
  OnRoute(p) /\ req[p].method = "POST" /\ req[p].content_length <= 16 * 1024 * 1024

\* an ERROR record of the log call at position j of the trace is in both sinks,
\* written before position k
LoggedBetween(p, j, k) ==
  /\ trace[p][j].op = "log"
  /\ j < k
  /\ \A h \in {"file", "stream"} :
       \E m \in (j+1)..(k-1) :
         /\ trace[p][m].op = "emit"
         /\ trace[p][m].func = h
         /\ trace[p][m].msg = trace[p][j].msg
  /\ \A sink \in {logFile, logStream} :
       \E n \in 1..Len(sink) :
         /\ sink[n].level = "ERROR"
         /\ sink[n].message = trace[p][j].msg
         /\ sink[n].funcName = trace[p][j].func

(* -------------------------------- C1 ----------------------------------- *)

\* C1 as stated: every request whose payload is at most 16 MiB and whose image
\* upload is present with an allowed extension has the classifier invoked
\* exactly once, on the uploaded bytes unmodified; every other request never
\* has the classifier invoked.
C1_AsStated ==
  \A p \in Workers :
    Finished(p) =>
      IF /\ req[p].content_length <= 16 * 1024 * 1024
         /\ req[p].file.present
         /\ ExtensionAllowed(req[p].file.filename)
      THEN PredictCalls(p) # <<>> /\ Len(PredictCalls(p)) = 1
             /\ PredictCalls(p)[1].data = req[p].file.stream
      ELSE PredictCalls(p) = <<>>

\* C1 as amended: every POST to / or /api/predict whose payload is at most
\* 16 MiB, whose image upload is present with an allowed extension and whose
\* upload stream is read without a failure has the classifier invoked exactly
\* once, on the uploaded bytes unmodified, before the response; every other
\* request never has the classifier invoked.
C1_ClassifierInvocation ==
  \A p \in Workers :
    Finished(p) =>
      IF /\ Upload_request(p)
         /\ req[p].file.present
         /\ ExtensionAllowed(req[p].file.filename)
         /\ ReadOk(p)
      THEN Len(PredictCalls(p)) = 1
             /\ PredictCalls(p)[1].data = req[p].file.stream
      ELSE PredictCalls(p) = <<>>

\* a finished upload of bytes at exactly the size limit that reached the classifier
C1_Witness ==
  \E p \in Workers :
    /\ Finished(p)
    /\ req[p].content_length = 16 * 1024 * 1024
    /\ req[p].file.stream # <<>>
    /\ Len(PredictCalls(p)) = 1

(* -------------------------------- C2 ----------------------------------- *)

\* C2 as stated, for the requests whose upload is validated (a POST to one of
\* the two routes): whenever the image field is present, the outcome is
\* InvalidExtension exactly when the filename has no '.' or its lowercased
\* suffix is not allowed (the empty filename included), and on the API route
\* InvalidExtension is answered 400 with the "Invalid file type" body.
C2_AsStated ==
  \A p \in Workers :
    (Finished(p) /\ OnRoute(p) /\ req[p].method = "POST" /\ req[p].file.present) =>
      /\ Says(p, InvalidTypeMsg) <=> ~ExtensionAllowed(req[p].file.filename)
      /\ (req[p].path = "/api/predict" /\ ~ExtensionAllowed(req[p].file.filename))
           => Resp(p) = JsonError(InvalidTypeMsg, 400)

\* C2 as amended: for a POST within the size limit whose image field is
\* present with a non-empty filename, the outcome is InvalidExtension exactly
\* when the filename has no '.' or its lowercased suffix after the last '.' is
\* not in {png, jpg, jpeg}, and on the API route InvalidExtension is answered
\* 400 with the "Invalid file type" body; an image field with the empty
\* filename is answered as a missing file.
C2_InvalidExtension ==
  \A p \in Workers :
    (Finished(p) /\ Upload_request(p) /\ req[p].file.present) =>
      IF req[p].file.filename = <<>>
      THEN Says(p, NoFileMsg) /\ ~Says(p, InvalidTypeMsg)
      ELSE /\ Says(p, InvalidTypeMsg) <=> ~ExtensionAllowed(req[p].file.filename)
           /\ (req[p].path = "/api/predict" /\ ~ExtensionAllowed(req[p].file.filename))
                => Resp(p) = JsonError(InvalidTypeMsg, 400)

\* an upper-case allowed extension was accepted on the API route
C2_Witness ==
  \E p \in Workers :
    /\ Finished(p)
    /\ Upload_request(p)
    /\ req[p].path = "/api/predict"
    /\ req[p].file.filename = <<"a",".","P","N","G">>
    /\ ~Says(p, InvalidTypeMsg)

(* -------------------------------- C3 ----------------------------------- *)

\* C3 as stated: every request that lacks the image field is answered "No file
\* uploaded. Please upload an image.": 400 JSON on the API route, the error of
\* the rendered context (with no result) on the page route.
C3_AsStated ==
  \A p \in Workers :
    (Finished(p) /\ OnRoute(p) /\ ~req[p].file.present) =>
      IF req[p].path = "/api/predict"
      THEN Resp(p) = JsonError(NoFileMsg, 400)
      ELSE \E i \in At(p, "render") : trace[p][i].resp = Context(FALSE, None, 0, NoFileMsg)

\* C3 as amended: every POST within the size limit that lacks the image field
\* is answered "No file uploaded. Please upload an image.": 400 JSON on the API
\* route, the error of the context handed to the template (with no result) on
\* the page route.
C3_MissingFile ==
  \A p \in Workers :
    (Finished(p) /\ Upload_request(p) /\ ~req[p].file.present) =>
      IF req[p].path = "/api/predict"
      THEN Resp(p) = JsonError(NoFileMsg, 400)
      ELSE /\ \A i \in At(p, "render") : trace[p][i].resp = Context(FALSE, None, 0, NoFileMsg)
           /\ At(p, "render") # {}

\* a POST to the page route without the image field was answered
C3_Witness ==
  \E p \in Workers :
    /\ Finished(p)
    /\ Upload_request(p)
    /\ req[p].path = "/"
    /\ ~req[p].file.present
    /\ Resp(p).kind = "page"

(* -------------------------------- C4 ----------------------------------- *)

\* the classifier returned the anomalous sentinel
ReturnedAnomalous(p) ==
  \E i \in At(p, "predict") : trace[p][i].out.ok /\ trace[p][i].out.label = "Anomalous"

\* C4: on the API route, whenever the classifier returns the anomalous result
\* the response is 400 with the body {error: "Image is anomalous and cannot be
\* classified."}, and no 200 response of the API route has the anomalous
\* sentinel as its class.
C4_AnomalousRejected ==
  \A p \in Workers :
    (Finished(p) /\ req[p].path = "/api/predict") =>
      /\ ReturnedAnomalous(p) => Resp(p) = JsonError(AnomalousMsg, 400)
      /\ (Resp(p).status = 200 /\ Resp(p).hasResult) => Resp(p).label # "Anomalous"

\* an API request whose classifier returned the anomalous result was answered
C4_Witness ==
  \E p \in Workers :
    Finished(p) /\ req[p].path = "/api/predict" /\ ReturnedAnomalous(p)

(* -------------------------------- C5 ----------------------------------- *)

\* the read of the upload or the classifier raised
PredictionFailed(p) ==
  \E i \in At(p, "read") \cup At(p, "predict") : ~trace[p][i].out.ok

\* C5: on the API route, a failure raised while reading the validated upload or
\* invoking the classifier is answered 500 with the body {error: "Prediction
\* error: " + message}; it is never handed to an error handler, so it never
\* gets the generic "An unexpected error occurred" body.
C5_PredictionError ==
  \A p \in Workers :
    (Finished(p) /\ req[p].path = "/api/predict" /\ PredictionFailed(p)) =>
      /\ \E i \in At(p, "read") \cup At(p, "predict") :
           /\ ~trace[p][i].out.ok
           /\ Resp(p) = JsonError("Prediction error: " \o trace[p][i].out.msg, 500)
      /\ At(p, "raise") = {}
      /\ Resp(p).error # "An unexpected error occurred"

\* an API request whose classifier raised was answered
C5_Witness ==
  \E p \in Workers :
    /\ Finished(p)
    /\ req[p].path = "/api/predict"
    /\ \E i \in At(p, "predict") : ~trace[p][i].out.ok

(* -------------------------------- C6 ----------------------------------- *)

\* C6: a probability outside [0,1] is treated as a classifier error: no 200 body
\* of the API route and no result rendered by the page route carries a
\* probability outside [0,1] (0..100 in hundredths).
C6_ProbabilityInRange ==
  \A p \in Workers :
    (Finished(p) /\ Resp(p).hasResult) => (Resp(p).prob >= 0 /\ Resp(p).prob <= 100)

(* -------------------------------- C7 ----------------------------------- *)

\* the error strings the page route shows
Curated(p, m) ==
  \/ m = "No file uploaded. Please upload an image."
  \/ m = "Invalid file type. Please upload a valid image."
  \/ \E d \in FailureMsgs(p) : m = "Prediction error: " \o d

\* C7 as stated: every request to / (GET or POST, whatever the validation and
\* the classifier outcome) is answered 200 with a page context that carries
\* either a (result, probability) pair or a curated error string, never both and
\* never a JSON body; an anomalous result is rendered as a normal result.
C7_AsStated ==
  \A p \in Workers :
    (Finished(p) /\ req[p].path = "/") =>
      /\ Resp(p).kind = "page"
      /\ Resp(p).status = 200
      /\ ~(Resp(p).hasResult /\ Resp(p).error # None)
      /\ req[p].method = "POST" => (Resp(p).hasResult \/ Resp(p).error # None)
      /\ Resp(p).error # None => Curated(p, Resp(p).error)
      /\ ReturnedAnomalous(p) =>
           Resp(p).hasResult /\ Resp(p).label = "Anomalous" /\ Resp(p).error = None

\* the last rendering of the request raised in the template engine
RenderFailed(p) ==
  \E i \in At(p, "render") :
    ~trace[p][i].out.ok /\ \A j \in At(p, "render") : j <= i

\* C7 as amended: a request to / is answered by the page route itself unless it
\* is a POST whose payload exceeds 16 MiB (answered 413 with a JSON error body
\* by the HTTP error handler) or the rendering of its page raised (answered 500
\* with a JSON body by the generic error handler). Every request the page route
\* answers gets 200 and a page context, never a JSON body, never both a result
\* and an error: a POST gets either a (result, probability) pair or a curated
\* error string, a GET gets neither; an anomalous result is rendered as a normal
\* result.
C7_PagePolicy ==
  \A p \in Workers :
    (Finished(p) /\ req[p].path = "/") =>
      IF req[p].method = "POST" /\ req[p].content_length > 16 * 1024 * 1024
      THEN Resp(p) = JsonError(RequestEntityTooLarge.description, 413)
      ELSE IF RenderFailed(p)
      THEN Resp(p).kind = "json" /\ Resp(p).status = 500
      ELSE /\ Resp(p).kind = "page"
           /\ Resp(p).status = 200
           /\ ~(Resp(p).hasResult /\ Resp(p).error # None)
           /\ req[p].method = "POST" => (Resp(p).hasResult \/ Resp(p).error # None)
           /\ req[p].method = "GET" => (~Resp(p).hasResult /\ Resp(p).error = None)
           /\ Resp(p).error # None => Curated(p, Resp(p).error)
           /\ ReturnedAnomalous(p) /\ (\A i \in At(p, "render") : trace[p][i].out.ok) =>
                Resp(p).hasResult /\ Resp(p).label = "Anomalous" /\ Resp(p).error = None

\* a POST to / whose classifier raised was answered with a curated error page
C7_Witness ==
  \E p \in Workers :
    /\ Finished(p)
    /\ req[p].path = "/"
    /\ \E i \in At(p, "predict") : ~trace[p][i].out.ok
    /\ Resp(p).kind = "page"
    /\ Resp(p).error # None

(* -------------------------------- C8 ----------------------------------- *)

\* the response the error handlers owe to exception e
BoundaryResponse(e) ==
  IF e.kind = "http"
  THEN IF e.code = 404
       THEN [kind |-> "json", status |-> 404, error |-> "Not Found", hasResult |-> FALSE,
             label |-> None, prob |-> 0, details |-> None]
       ELSE [kind |-> "json", status |-> e.code, error |-> e.description,
             hasResult |-> FALSE, label |-> None, prob |-> 0, details |-> None]
  ELSE [kind |-> "json", status |-> 500, error |-> "An unexpected error occurred",
        hasResult |-> FALSE, label |-> None, prob |-> 0, details |-> Str(e)]

\* C8: every failure an error handler intercepts gets exactly one JSON response,
\* after an ERROR record of it was written to the log: an HTTP failure gets its
\* own status with {error: description}, except that 404 gets {error: "Not
\* Found"}; any other failure gets 500 with {error: "An unexpected error
\* occurred", details: <its string>}.
C8_ErrorBoundary ==
  \A p \in Workers :
    Finished(p) =>
      \A i \in At(p, "raise") :
        /\ At(p, "return") = {Len(trace[p])}
        /\ Resp(p) = BoundaryResponse(trace[p][i].exc)
        /\ \E j \in At(p, "log") : j > i /\ LoggedBetween(p, j, Len(trace[p]))

\* a request for an unknown URL was answered by the HTTP error handler
C8_Witness ==
  \E p \in Workers :
    /\ Finished(p)
    /\ \E i \in At(p, "raise") : trace[p][i].exc.code = 404
    /\ Resp(p).status = 404

(* -------------------------------- C9 ----------------------------------- *)

Quiescent == \A p \in Workers : pend[p] = <<>>

\* C10: each log call appends exactly one record to the log file and exactly
\* one to the stream, so that between log calls the number of records in each
\* sink equals the number of log calls made so far.
C10_OneRecordPerCall ==
  Quiescent => (Len(logFile) = logCalls /\ Len(logStream) = logCalls)

====
